---- MODULE Spec2Model ----
(***************************************************************************)
(* Model of the permission-gated WebDAV filesystem adapter `Dir` and of    *)
(* the per-user adapter `UserDir` of package app.                          *)
(*                                                                         *)
(* Strings are sequences of one-character strings, so that path.Clean and  *)
(* filepath.Join are computed character by character as the Go library     *)
(* computes them.  NUL stands for the byte "\x00".                         *)
(***************************************************************************)
EXTENDS Integers, Sequences, FiniteSets, TLC

VARIABLES cfg, fs, inflight, last

vars == <<cfg, fs, inflight, last>>

(***************************************************************************)
(* Bounds of the model.                                                    *)
(***************************************************************************)
\* longest virtual path handed to resolve in SpecResolve
MaxLen == 4
\* number of OpenFile requests that may sit between os.Stat and os.OpenFile
MaxInflight == 2

NUL == "0"
\* filepath.Separator of the build platform (unix)
Separator == "/"

(***************************************************************************)
(* String helpers.                                                         *)
(***************************************************************************)
RECURSIVE StrsUpTo(_, _)
StrsUpTo(alphabet, n) ==
    IF n = 0 THEN {<<>>}
    ELSE LET shorter == StrsUpTo(alphabet, n - 1)
         IN  shorter \cup {Append(s, c) : s \in shorter, c \in alphabet}

Contains(s, c) == \E i \in 1..Len(s) : s[i] = c

\* strings.Split(s, "/"): the segments between slashes, empty ones included;
\* `done` holds the finished segments and `cur` the segment being read
RECURSIVE SplitFrom(_, _, _, _)
SplitFrom(s, i, done, cur) ==
    IF i > Len(s) THEN Append(done, cur)
    ELSE IF s[i] = "/" THEN SplitFrom(s, i + 1, Append(done, cur), <<>>)
    ELSE SplitFrom(s, i + 1, done, Append(cur, s[i]))

Split(s) == SplitFrom(s, 1, <<>>, <<>>)

\* strings.Join(segs, "/")
RECURSIVE JoinSlash(_)
JoinSlash(segs) ==
    IF Len(segs) = 0 THEN <<>>
    ELSE IF Len(segs) = 1 THEN segs[1]
    ELSE segs[1] \o <<"/">> \o JoinSlash(Tail(segs))

IsRooted(p) == Len(p) > 0 /\ p[1] = "/"

DotDot == <<".", ".">>

\* the element stack path.Clean builds while it scans the segments
RECURSIVE CleanStack(_, _, _)
CleanStack(segs, rooted, out) ==
    IF Len(segs) = 0 THEN out
    ELSE LET s == Head(segs)
             next ==
                IF s = <<>> \/ s = <<".">> THEN out
                ELSE IF s = DotDot
                     THEN IF Len(out) > 0 /\ out[Len(out)] # DotDot
                          THEN SubSeq(out, 1, Len(out) - 1)
                          ELSE IF rooted THEN out
                          ELSE Append(out, DotDot)
                     ELSE Append(out, s)
         IN  CleanStack(Tail(segs), rooted, next)

\* path.Clean / filepath.Clean
Clean(p) ==
    LET rooted == IsRooted(p)
        stack  == CleanStack(Split(p), rooted, <<>>)
    IN  IF rooted THEN <<"/">> \o JoinSlash(stack)
        ELSE IF Len(stack) = 0 THEN <<".">>
        ELSE JoinSlash(stack)

\* filepath.FromSlash
FromSlash(p) == [i \in 1..Len(p) |-> IF p[i] = "/" THEN Separator ELSE p[i]]

\* filepath.Join: empty elements are ignored, the result is cleaned
Join(elems) ==
    LET nonEmpty == SelectSeq(elems, LAMBDA e : Len(e) > 0)
    IN  IF Len(nonEmpty) = 0 THEN <<>> ELSE Clean(JoinSlash(nonEmpty))


(***************************************************************************)
(* Configuration and authentication values.                                *)
(*                                                                         *)
(* A Go pointer is an option: <<>> is nil and <<v>> points to v.  A *bool  *)
(* permission flag is one of "nil", "true", "false".                       *)
(***************************************************************************)
Alice == <<"u">>
Bob   == <<"v">>

NilPtr == <<>>
Ptr(v) == <<v>>

Flags == {"nil", "true", "false"}

UserInfo(subdir, r, w, d, l) ==
    [Subdir |-> subdir, Read |-> r, Write |-> w, Delete |-> d, List |-> l]

LogAll(b) == [Create |-> b, Read |-> b, Delete |-> b, Update |-> b]

Config(dir, users, log) == [Dir |-> dir, Users |-> users, Log |-> log]

NoUsers == [n \in {} |-> UserInfo(NilPtr, "nil", "nil", "nil", "nil")]
OnlyAlice(info) == [n \in {Alice} |-> info]

\* d.Config.Users[name]: the entry, or the nil pointer when the key is absent
UsersLookup(users, name) ==
    IF name \in DOMAIN users THEN Ptr(users[name]) ELSE NilPtr

\* AuthFromContext(ctx): nil, or the AuthInfo attached to the request
AuthInfo(authenticated, username) ==
    Ptr([Authenticated |-> authenticated, Username |-> username])

Contexts ==
    {NilPtr, AuthInfo(FALSE, Alice), AuthInfo(TRUE, Alice), AuthInfo(TRUE, Bob)}

IsAuthenticated(ctx) == ctx # NilPtr /\ ctx[1].Authenticated

(***************************************************************************)
(* Dir.resolveUser, Dir.resolve and UserDir.resolve.                       *)
(***************************************************************************)
resolveUser(ctx) == IF IsAuthenticated(ctx) THEN ctx[1].Username ELSE <<>>

\* the rejection test without its NUL clause
Rejected_NoNul(name) == Separator # "/" /\ Contains(name, Separator)

\* the rejection test both resolve functions start with
Rejected(name) ==
    \/ Separator # "/" /\ Contains(name, Separator)
    \/ Contains(name, NUL)

\* the virtual path anchored at "/" but not cleaned
CleanVirtual_NoClean(name) == FromSlash(<<"/">> \o name)

\* filepath.FromSlash(path.Clean("/"+name))
CleanVirtual(name) == FromSlash(Clean(<<"/">> \o name))

\* d.Config.Dir, with "." standing in for the empty string
DirOrDot(dir) == IF dir = <<>> THEN <<".">> ELSE dir

\* Dir.resolve: the physical path, or the empty string for a rejected name
resolve(c, ctx, name) ==
    IF Rejected(name) THEN <<>>
    ELSE LET dir == DirOrDot(c.Dir)
             userInfo == IF IsAuthenticated(ctx)
                         THEN UsersLookup(c.Users, ctx[1].Username)
                         ELSE NilPtr
         IN  IF IsAuthenticated(ctx) /\ userInfo # NilPtr
                                     /\ userInfo[1].Subdir # NilPtr
             THEN Join(<<dir, userInfo[1].Subdir[1], CleanVirtual(name)>>)
             ELSE Join(<<dir, CleanVirtual(name)>>)

\* UserDir.resolve, with BaseDir the same directory as Config.Dir
UserDir_resolve(baseDir, ctx, name) ==
    IF Rejected(name) THEN <<>>
    ELSE LET dir == DirOrDot(baseDir)
         IN  IF ~IsAuthenticated(ctx)
             THEN Join(<<dir, CleanVirtual(name)>>)
             ELSE Join(<<dir, ctx[1].Username, CleanVirtual(name)>>)

(***************************************************************************)
(* The permission gate.  A nil *UserInfo is dereferenced by the four       *)
(* functions, which is a run-time panic of the handler's goroutine.        *)
(***************************************************************************)
Allow == "allow"
Deny  == "deny"
Panic == "panic"

FlagAllows(flag) == IF flag = "nil" \/ flag = "true" THEN Allow ELSE Deny

\* an unauthenticated request let through whatever the table holds
Unauthenticated_Open(c) == Allow

Unauthenticated(c) == IF Cardinality(DOMAIN c.Users) = 0 THEN Allow ELSE Deny

hasRead(c, ctx) ==
    IF IsAuthenticated(ctx)
    THEN LET userInfo == UsersLookup(c.Users, ctx[1].Username)
         IN  IF userInfo = NilPtr THEN Panic ELSE FlagAllows(userInfo[1].Read)
    ELSE Unauthenticated(c)

\* the write check reading the Read flag
hasWrite_ReadsRead(c, ctx) ==
    IF IsAuthenticated(ctx)
    THEN LET userInfo == UsersLookup(c.Users, ctx[1].Username)
         IN  IF userInfo = NilPtr THEN Panic ELSE FlagAllows(userInfo[1].Read)
    ELSE Unauthenticated(c)

hasWrite(c, ctx) ==
    IF IsAuthenticated(ctx)
    THEN LET userInfo == UsersLookup(c.Users, ctx[1].Username)
         IN  IF userInfo = NilPtr THEN Panic ELSE FlagAllows(userInfo[1].Write)
    ELSE Unauthenticated(c)

hasDelete(c, ctx) ==
    IF IsAuthenticated(ctx)
    THEN LET userInfo == UsersLookup(c.Users, ctx[1].Username)
         IN  IF userInfo = NilPtr THEN Panic ELSE FlagAllows(userInfo[1].Delete)
    ELSE Unauthenticated(c)

\* the list check reading the Read flag
hasList_ReadsRead(c, ctx) ==
    IF IsAuthenticated(ctx)
    THEN LET userInfo == UsersLookup(c.Users, ctx[1].Username)
         IN  IF userInfo = NilPtr THEN Panic ELSE FlagAllows(userInfo[1].Read)
    ELSE Unauthenticated(c)

hasList(c, ctx) ==
    IF IsAuthenticated(ctx)
    THEN LET userInfo == UsersLookup(c.Users, ctx[1].Username)
         IN  IF userInfo = NilPtr THEN Panic ELSE FlagAllows(userInfo[1].List)
    ELSE Unauthenticated(c)

(***************************************************************************)
(* The underlying filesystem: a function from the existing physical paths  *)
(* (cleaned) to "file" or "dir".  The os primitives return the error and   *)
(* the filesystem they leave behind.                                       *)
(***************************************************************************)
Segs(p) == CleanStack(Split(p), IsRooted(p), <<>>)

FromSegs(rooted, segs) ==
    IF rooted THEN <<"/">> \o JoinSlash(segs)
    ELSE IF Len(segs) = 0 THEN <<".">>
    ELSE JoinSlash(segs)

\* p is q or lies below q (both cleaned)
IsUnder(p, q) ==
    LET sp == Segs(p)
        sq == Segs(q)
    IN  /\ IsRooted(p) = IsRooted(q)
        /\ Len(sp) >= Len(sq)
        /\ SubSeq(sp, 1, Len(sq)) = sq
        /\ \A i \in (Len(sq) + 1)..Len(sp) : sp[i] # DotDot

ParentOf(p) == Clean(p \o <<"/", ".", ".">>)

IsDirIn(f, p) == p \in DOMAIN f /\ f[p] = "dir"

\* os.Stat
osStat(f, p) ==
    IF p \in DOMAIN f THEN [err |-> "nil", isDir |-> f[p] = "dir"]
    ELSE [err |-> "ENOENT", isDir |-> FALSE]

\* os.Mkdir
osMkdir(f, p) ==
    IF p \in DOMAIN f THEN [err |-> "EEXIST", fs |-> f]
    ELSE IF ~IsDirIn(f, ParentOf(p)) THEN [err |-> "ENOENT", fs |-> f]
    ELSE [err |-> "nil", fs |-> [q \in DOMAIN f \cup {p} |->
                                    IF q = p THEN "dir" ELSE f[q]]]

O_RDONLY == 0
O_WRONLY == 1
O_RDWR   == 2

\* os.OpenFile for the access mode flag.acc and the O_CREATE bit flag.create
osOpenFile(f, p, flag) ==
    IF p \in DOMAIN f
    THEN IF f[p] = "dir" /\ (flag.acc # O_RDONLY \/ flag.create)
         THEN [err |-> "EISDIR", fs |-> f, isDir |-> FALSE]
         ELSE [err |-> "nil", fs |-> f, isDir |-> f[p] = "dir"]
    ELSE IF flag.create /\ IsDirIn(f, ParentOf(p))
         THEN [err |-> "nil", isDir |-> FALSE,
               fs |-> [q \in DOMAIN f \cup {p} |->
                          IF q = p THEN "file" ELSE f[q]]]
         ELSE [err |-> "ENOENT", fs |-> f, isDir |-> FALSE]

\* os.RemoveAll: the path and everything below it; a missing path is no error
osRemoveAll(f, p) ==
    [err |-> "nil",
     fs |-> [q \in {x \in DOMAIN f : ~IsUnder(x, p)} |-> f[q]]]

Rebase(q, old, new) ==
    FromSegs(IsRooted(new),
             Segs(new) \o SubSeq(Segs(q), Len(Segs(old)) + 1, Len(Segs(q))))

\* os.Rename
osRename(f, old, new) ==
    LET moved  == {q \in DOMAIN f : IsUnder(q, old)}
        kept   == {q \in DOMAIN f : ~IsUnder(q, old) /\ q # new}
        target == {Rebase(q, old, new) : q \in moved}
        source(t) == CHOOSE q \in moved : Rebase(q, old, new) = t
        done   == [t \in kept \cup target |->
                      IF t \in target THEN f[source(t)] ELSE f[t]]
    IN  IF old \notin DOMAIN f THEN [err |-> "ENOENT", fs |-> f]
        ELSE IF ~IsDirIn(f, ParentOf(new)) THEN [err |-> "ENOENT", fs |-> f]
        ELSE IF old = new THEN [err |-> "nil", fs |-> f]
        ELSE IF IsUnder(new, old) THEN [err |-> "EINVAL", fs |-> f]
        ELSE IF new \in DOMAIN f /\ f[new] = "dir" /\ f[old] # "dir"
             THEN [err |-> "EISDIR", fs |-> f]
        ELSE IF new \in DOMAIN f /\ f[new] # "dir" /\ f[old] = "dir"
             THEN [err |-> "ENOTDIR", fs |-> f]
        ELSE IF \E q \in DOMAIN f : q # new /\ IsUnder(q, new)
             THEN [err |-> "ENOTEMPTY", fs |-> f]
        ELSE [err |-> "nil", fs |-> done]

(***************************************************************************)
(* The response of the handler that ran last.  `executed` tells whether    *)
(* the handler reached its os.Mkdir / os.OpenFile / os.RemoveAll /         *)
(* os.Rename / os.Stat call, `logged` whether it emitted its audit record, *)
(* `statDir` what the os.Stat inside OpenFile saw, `openDir` whether the   *)
(* os.OpenFile call opened a directory.                                    *)
(***************************************************************************)
NoFlag == [acc |-> O_RDONLY, create |-> FALSE]

Response(op, ctx, n1, n2, flag, p1, p2, err, exec, logd, sd, od) ==
    [op |-> op, ctx |-> ctx, name |-> n1, name2 |-> n2, flag |-> flag,
     phys |-> p1, phys2 |-> p2, err |-> err, executed |-> exec,
     logged |-> logd, statDir |-> sd, openDir |-> od]

\* a handler that returned before its filesystem call
Refused(op, ctx, name, name2, flag, phys, phys2, err) ==
    Response(op, ctx, name, name2, flag, phys, phys2, err, FALSE, FALSE,
             FALSE, FALSE)

NoResponse ==
    Refused("none", NilPtr, <<>>, <<>>, NoFlag, <<>>, <<>>, "nil")

Idle == last.op = "none"

\* the comparison against the root as configured, not cleaned
IsRoot_NoClean(dir, p) == p = dir

\* the comparison RemoveAll and Rename make against the configured root
IsRoot(dir, p) == p = Clean(dir)

(***************************************************************************)
(* Dir.Mkdir                                                               *)
(***************************************************************************)
Mkdir(ctx, name) ==
    /\ Idle
    /\ LET p == resolve(cfg, ctx, name)
           w == hasWrite(cfg, ctx)
           r == osMkdir(fs, p)
       IN  IF p = <<>>
           THEN /\ last' = Refused("Mkdir", ctx, name, <<>>, NoFlag, p, <<>>,
                                   "ErrNotExist")
                /\ fs' = fs
           ELSE IF w # Allow
           THEN /\ last' = Refused("Mkdir", ctx, name, <<>>, NoFlag, p, <<>>,
                              IF w = Panic THEN "panic" ELSE "ErrPermission")
                /\ fs' = fs
           ELSE /\ last' = Response("Mkdir", ctx, name, <<>>, NoFlag, p, <<>>,
                              r.err, TRUE, r.err = "nil" /\ cfg.Log.Create,
                              FALSE, FALSE)
                /\ fs' = r.fs
    /\ UNCHANGED <<cfg, inflight>>

(***************************************************************************)
(* Dir.OpenFile.  OpenFileCheck is the handler up to, and OpenFileOpen the *)
(* handler from, its os.OpenFile call; os.Stat and os.OpenFile are two     *)
(* separate filesystem calls.                                              *)
(***************************************************************************)
OpenFileCheck(c, f, ctx, name, flag) ==
    LET p  == resolve(c, ctx, name)
        w  == hasWrite(c, ctx)
        st == osStat(f, p)
        isDir == st.err = "nil" /\ st.isDir
        l  == hasList(c, ctx)
        r  == hasRead(c, ctx)
        readSide == flag.acc = O_RDONLY \/ flag.acc = O_RDWR
    IN  IF p = <<>> THEN [err |-> "ErrNotExist", phys |-> p, statDir |-> FALSE]
        ELSE IF flag.acc # O_RDONLY /\ w # Allow
        THEN [err |-> IF w = Panic THEN "panic" ELSE "ErrPermission",
              phys |-> p, statDir |-> FALSE]
        ELSE IF readSide /\ isDir /\ l # Allow
        THEN [err |-> IF l = Panic THEN "panic" ELSE "ErrPermission",
              phys |-> p, statDir |-> isDir]
        ELSE IF readSide /\ r # Allow
        THEN [err |-> IF r = Panic THEN "panic" ELSE "ErrPermission",
              phys |-> p, statDir |-> isDir]
        ELSE [err |-> "nil", phys |-> p, statDir |-> readSide /\ isDir]

OpenFileOpen(c, f, p, flag) ==
    LET o == osOpenFile(f, p, flag)
    IN  [err |-> o.err, fs |-> o.fs, openDir |-> o.err = "nil" /\ o.isDir,
         logged |-> o.err = "nil" /\ c.Log.Read]

\* one request at a time: nothing runs between the check and the open
OpenFile(ctx, name, flag) ==
    /\ Idle
    /\ LET chk == OpenFileCheck(cfg, fs, ctx, name, flag)
           o   == OpenFileOpen(cfg, fs, chk.phys, flag)
       IN  IF chk.err # "nil"
           THEN /\ last' = Response("OpenFile", ctx, name, <<>>, flag, chk.phys,
                              <<>>, chk.err, FALSE, FALSE, chk.statDir, FALSE)
                /\ fs' = fs
           ELSE /\ last' = Response("OpenFile", ctx, name, <<>>, flag, chk.phys,
                              <<>>, o.err, TRUE, o.logged, chk.statDir,
                              o.openDir)
                /\ fs' = o.fs
    /\ UNCHANGED <<cfg, inflight>>

\* concurrent requests: the request waits in `inflight` between the two calls
OpenFileBegin(ctx, name, flag) ==
    /\ Idle
    /\ LET chk == OpenFileCheck(cfg, fs, ctx, name, flag)
       IN  IF chk.err # "nil"
           THEN /\ last' = Response("OpenFile", ctx, name, <<>>, flag, chk.phys,
                              <<>>, chk.err, FALSE, FALSE, chk.statDir, FALSE)
                /\ inflight' = inflight
           ELSE /\ Cardinality(inflight) < MaxInflight
                /\ last' = last
                /\ inflight' = inflight \cup
                       {[ctx |-> ctx, name |-> name, flag |-> flag,
                         phys |-> chk.phys, statDir |-> chk.statDir]}
    /\ UNCHANGED <<cfg, fs>>

OpenFileFinish(req) ==
    /\ Idle
    /\ LET o == OpenFileOpen(cfg, fs, req.phys, req.flag)
       IN  /\ last' = Response("OpenFile", req.ctx, req.name, <<>>, req.flag,
                          req.phys, <<>>, o.err, TRUE, o.logged, req.statDir,
                          o.openDir)
           /\ fs' = o.fs
    /\ inflight' = inflight \ {req}
    /\ UNCHANGED cfg

(***************************************************************************)
(* Dir.RemoveAll                                                           *)
(***************************************************************************)
RemoveAll(ctx, name) ==
    /\ Idle
    /\ LET p == resolve(cfg, ctx, name)
           d == hasDelete(cfg, ctx)
           r == osRemoveAll(fs, p)
       IN  IF p = <<>>
           THEN /\ last' = Refused("RemoveAll", ctx, name, <<>>, NoFlag, p,
                                   <<>>, "ErrNotExist")
                /\ fs' = fs
           ELSE IF IsRoot(cfg.Dir, p)
           THEN /\ last' = Refused("RemoveAll", ctx, name, <<>>, NoFlag, p,
                                   <<>>, "ErrInvalid")
                /\ fs' = fs
           ELSE IF d # Allow
           THEN /\ last' = Refused("RemoveAll", ctx, name, <<>>, NoFlag, p,
                              <<>>,
                              IF d = Panic THEN "panic" ELSE "ErrPermission")
                /\ fs' = fs
           ELSE /\ last' = Response("RemoveAll", ctx, name, <<>>, NoFlag, p,
                              <<>>, r.err, TRUE,
                              r.err = "nil" /\ cfg.Log.Delete, FALSE, FALSE)
                /\ fs' = r.fs
    /\ UNCHANGED <<cfg, inflight>>

(***************************************************************************)
(* Dir.Rename                                                              *)
(***************************************************************************)
Rename(ctx, oldName, newName) ==
    /\ Idle
    /\ LET po == resolve(cfg, ctx, oldName)
           pn == resolve(cfg, ctx, newName)
           w  == hasWrite(cfg, ctx)
           r  == osRename(fs, po, pn)
       IN  IF po = <<>> \/ pn = <<>>
           THEN /\ last' = Refused("Rename", ctx, oldName, newName, NoFlag, po,
                              IF po = <<>> THEN <<>> ELSE pn, "ErrNotExist")
                /\ fs' = fs
           ELSE IF w # Allow
           THEN /\ last' = Refused("Rename", ctx, oldName, newName, NoFlag, po,
                              pn,
                              IF w = Panic THEN "panic" ELSE "ErrPermission")
                /\ fs' = fs
           ELSE IF IsRoot(cfg.Dir, po) \/ IsRoot(cfg.Dir, pn)
           THEN /\ last' = Refused("Rename", ctx, oldName, newName, NoFlag, po,
                                   pn, "ErrInvalid")
                /\ fs' = fs
           ELSE /\ last' = Response("Rename", ctx, oldName, newName, NoFlag, po,
                              pn, r.err, TRUE,
                              r.err = "nil" /\ cfg.Log.Update, FALSE, FALSE)
                /\ fs' = r.fs
    /\ UNCHANGED <<cfg, inflight>>

(***************************************************************************)
(* Dir.Stat                                                                *)
(***************************************************************************)
Stat(ctx, name) ==
    /\ Idle
    /\ LET p  == resolve(cfg, ctx, name)
           l  == hasList(cfg, ctx)
           st == osStat(fs, p)
       IN  IF p = <<>>
           THEN last' = Refused("Stat", ctx, name, <<>>, NoFlag, p, <<>>,
                                "ErrNotExist")
           ELSE IF l # Allow
           THEN last' = Refused("Stat", ctx, name, <<>>, NoFlag, p, <<>>,
                            IF l = Panic THEN "panic" ELSE "ErrPermission")
           ELSE last' = Response("Stat", ctx, name, <<>>, NoFlag, p, <<>>,
                            st.err, TRUE, FALSE, st.isDir, FALSE)
    /\ UNCHANGED <<cfg, fs, inflight>>

(***************************************************************************)
(* UserDir.RemoveAll and UserDir.Rename, serving the same directory.       *)
(***************************************************************************)
UserDir_RemoveAll(ctx, name) ==
    /\ Idle
    /\ LET p == UserDir_resolve(cfg.Dir, ctx, name)
           r == osRemoveAll(fs, p)
       IN  IF p = <<>>
           THEN /\ last' = Refused("UserDir.RemoveAll", ctx, name, <<>>, NoFlag,
                                   p, <<>>, "ErrNotExist")
                /\ fs' = fs
           ELSE IF IsRoot(cfg.Dir, p)
           THEN /\ last' = Refused("UserDir.RemoveAll", ctx, name, <<>>, NoFlag,
                                   p, <<>>, "ErrInvalid")
                /\ fs' = fs
           ELSE /\ last' = Response("UserDir.RemoveAll", ctx, name, <<>>,
                              NoFlag, p, <<>>, r.err, TRUE, FALSE, FALSE, FALSE)
                /\ fs' = r.fs
    /\ UNCHANGED <<cfg, inflight>>

UserDir_Rename(ctx, oldName, newName) ==
    /\ Idle
    /\ LET po == UserDir_resolve(cfg.Dir, ctx, oldName)
           pn == UserDir_resolve(cfg.Dir, ctx, newName)
           r  == osRename(fs, po, pn)
       IN  IF po = <<>> \/ pn = <<>>
           THEN /\ last' = Refused("UserDir.Rename", ctx, oldName, newName,
                              NoFlag, po, IF po = <<>> THEN <<>> ELSE pn,
                              "ErrNotExist")
                /\ fs' = fs
           ELSE IF IsRoot(cfg.Dir, po) \/ IsRoot(cfg.Dir, pn)
           THEN /\ last' = Refused("UserDir.Rename", ctx, oldName, newName,
                                   NoFlag, po, pn, "ErrInvalid")
                /\ fs' = fs
           ELSE /\ last' = Response("UserDir.Rename", ctx, oldName, newName,
                              NoFlag, po, pn, r.err, TRUE, FALSE, FALSE, FALSE)
                /\ fs' = r.fs
    /\ UNCHANGED <<cfg, inflight>>

\* the response is handed to the caller, which may then issue the next call
Return ==
    /\ ~Idle
    /\ last.op \in {"Mkdir", "OpenFile", "RemoveAll", "Rename", "Stat",
                    "UserDir.RemoveAll", "UserDir.Rename"}
    /\ last' = NoResponse
    /\ UNCHANGED <<cfg, fs, inflight>>

(***************************************************************************)
(* Spec: one caller issuing adapter calls one after the other.             *)
(***************************************************************************)
Str_d_slash == <<"/", "d", "/">>

\* virtual paths handed to the operations: three spellings of the root, two
\* children, and two names holding a NUL byte
OpNames ==
    { <<"/">>, <<>>, DotDot, <<"/", "a">>, <<"/", "b">>,
      <<"/", "a", NUL>>, <<NUL>> }

OpFlags == [acc : {O_RDONLY, O_WRONLY, O_RDWR, O_WRONLY + O_RDWR},
            create : BOOLEAN]

\* policies with no flag, one flag or every flag set to false, with and
\* without a subdirectory; an explicit true is covered by SpecGate
FalseCount(r, w, d, l) ==
    Cardinality({i \in 1..4 : <<r, w, d, l>>[i] = "false"})

OpUserInfos ==
    {UserInfo(sub, r, w, d, l) :
        sub \in {NilPtr, Ptr(Alice)},
        <<r, w, d, l>> \in {t \in {"nil", "false"} \X {"nil", "false"}
                                    \X {"nil", "false"} \X {"nil", "false"} :
                               FalseCount(t[1], t[2], t[3], t[4]) \in {0, 1, 4}}}

OpConfigs ==
    {Config(dir, users, LogAll(b)) :
        dir \in {Str_d_slash, <<>>},
        users \in {NoUsers} \cup {OnlyAlice(i) : i \in OpUserInfos},
        b \in BOOLEAN}

\* the served directory and the directory of user Alice exist
InitFs(c) ==
    LET root == Clean(DirOrDot(c.Dir))
        home == Join(<<root, Alice>>)
    IN  [q \in {root, home} |-> "dir"]

Init ==
    /\ cfg \in OpConfigs
    /\ fs = InitFs(cfg)
    /\ inflight = {}
    /\ last = NoResponse

DoMkdir == Idle /\ \E ctx \in Contexts, name \in OpNames : Mkdir(ctx, name)

DoOpenFile ==
    Idle /\ \E ctx \in Contexts, name \in OpNames, flag \in OpFlags :
        OpenFile(ctx, name, flag)

DoRemoveAll ==
    Idle /\ \E ctx \in Contexts, name \in OpNames : RemoveAll(ctx, name)

DoRename ==
    Idle /\ \E ctx \in Contexts, oldName \in OpNames, newName \in OpNames :
        Rename(ctx, oldName, newName)

DoStat == Idle /\ \E ctx \in Contexts, name \in OpNames : Stat(ctx, name)

DoUserDirRemoveAll ==
    Idle /\ \E ctx \in Contexts, name \in OpNames : UserDir_RemoveAll(ctx, name)

DoUserDirRename ==
    Idle /\ \E ctx \in Contexts, oldName \in OpNames, newName \in OpNames :
        UserDir_Rename(ctx, oldName, newName)

Next ==
    \/ DoMkdir
    \/ DoOpenFile
    \/ DoRemoveAll
    \/ DoRename
    \/ DoStat
    \/ DoUserDirRemoveAll
    \/ DoUserDirRename
    \/ Return

Spec == Init /\ [][Next]_vars

(***************************************************************************)
(* SpecConc: requests served concurrently.  Every handler but OpenFile     *)
(* makes one filesystem call and is one step; OpenFile is two steps, and   *)
(* other requests may run between its os.Stat and its os.OpenFile.         *)
(***************************************************************************)
ConcNames == { <<"/">>, <<"/", "a">>, <<"/", "b">> }

ConcFlags == [acc : {O_RDONLY, O_RDWR}, create : BOOLEAN]

ConcConfigs ==
    {Config(Str_d_slash,
            OnlyAlice(UserInfo(sub, "nil", "nil", "nil", "false")),
            LogAll(TRUE)) : sub \in {NilPtr, Ptr(Alice)}}

InitConc ==
    /\ cfg \in ConcConfigs
    /\ fs = InitFs(cfg)
    /\ inflight = {}
    /\ last = NoResponse

ConcMkdir ==
    Idle /\ \E ctx \in Contexts, name \in ConcNames : Mkdir(ctx, name)

ConcOpenFileBegin ==
    Idle /\ \E ctx \in Contexts, name \in ConcNames, flag \in ConcFlags :
                OpenFileBegin(ctx, name, flag)

ConcOpenFileFinish == Idle /\ \E req \in inflight : OpenFileFinish(req)

ConcRemoveAll ==
    Idle /\ \E ctx \in Contexts, name \in ConcNames : RemoveAll(ctx, name)

ConcRename ==
    Idle /\ \E ctx \in Contexts, oldName \in ConcNames, newName \in ConcNames :
                Rename(ctx, oldName, newName)

ConcStat == Idle /\ \E ctx \in Contexts, name \in ConcNames : Stat(ctx, name)

NextConc ==
    \/ ConcMkdir
    \/ ConcOpenFileBegin
    \/ ConcOpenFileFinish
    \/ ConcRemoveAll
    \/ ConcRename
    \/ ConcStat
    \/ Return

SpecConc == InitConc /\ [][NextConc]_vars

(***************************************************************************)
(* SpecResolve: Dir.resolve applied to one input drawn by the initial      *)
(* state.                                                                  *)
(***************************************************************************)
ResolveAlphabet == {"/", ".", "a", NUL}

ResolveNames == StrsUpTo(ResolveAlphabet, MaxLen)

ResolveDirs ==
    { <<>>, <<"/">>, <<"/", "d">>, Str_d_slash, <<"d">>,
      <<".", ".", "/", "d">> }

ResolveSubdirs ==
    { NilPtr, Ptr(Alice), Ptr(<<>>), Ptr(DotDot), Ptr(<<"/", "u">>) }

ResolveConfigs ==
    {Config(dir, users, LogAll(FALSE)) :
        dir \in ResolveDirs,
        users \in {NoUsers} \cup
                  {OnlyAlice(UserInfo(sub, "nil", "nil", "nil", "nil")) :
                      sub \in ResolveSubdirs}}

InitResolve ==
    /\ cfg \in ResolveConfigs
    /\ fs = InitFs(cfg)
    /\ inflight = {}
    /\ \E ctx \in Contexts, name \in ResolveNames :
          last = Refused("call resolve", ctx, name, <<>>, NoFlag, <<>>, <<>>,
                         "nil")

Resolve ==
    /\ last.op = "call resolve"
    /\ last' = [last EXCEPT !.op = "resolve",
                            !.phys = resolve(cfg, last.ctx, last.name)]
    /\ UNCHANGED <<cfg, fs, inflight>>

NextResolve == Resolve

SpecResolve == InitResolve /\ [][NextResolve]_vars

(***************************************************************************)
(* SpecGate: the four permission functions applied to every policy.        *)
(***************************************************************************)
GateConfigs ==
    {Config(Str_d_slash, users, LogAll(FALSE)) :
        users \in {NoUsers} \cup
                  {OnlyAlice(UserInfo(NilPtr, r, w, d, l)) :
                      r \in Flags, w \in Flags, d \in Flags, l \in Flags}}

InitGate ==
    /\ cfg \in GateConfigs
    /\ fs = InitFs(cfg)
    /\ inflight = {}
    /\ last = NoResponse

Answer(op, ctx, answer) ==
    Refused(op, ctx, <<>>, <<>>, NoFlag, <<>>, <<>>, answer)

HasRead ==
    /\ Idle
    /\ \E ctx \in Contexts : last' = Answer("hasRead", ctx, hasRead(cfg, ctx))
    /\ UNCHANGED <<cfg, fs, inflight>>

HasWrite ==
    /\ Idle
    /\ \E ctx \in Contexts : last' = Answer("hasWrite", ctx, hasWrite(cfg, ctx))
    /\ UNCHANGED <<cfg, fs, inflight>>

HasDelete ==
    /\ Idle
    /\ \E ctx \in Contexts :
          last' = Answer("hasDelete", ctx, hasDelete(cfg, ctx))
    /\ UNCHANGED <<cfg, fs, inflight>>

HasList ==
    /\ Idle
    /\ \E ctx \in Contexts : last' = Answer("hasList", ctx, hasList(cfg, ctx))
    /\ UNCHANGED <<cfg, fs, inflight>>

GateReturn ==
    /\ last.op \in {"hasRead", "hasWrite", "hasDelete", "hasList"}
    /\ last' = NoResponse
    /\ UNCHANGED <<cfg, fs, inflight>>

NextGate == HasRead \/ HasWrite \/ HasDelete \/ HasList \/ GateReturn

SpecGate == InitGate /\ [][NextGate]_vars

(***************************************************************************)
(* Properties.                                                             *)
(***************************************************************************)
DirOps == {"Mkdir", "OpenFile", "RemoveAll", "Rename", "Stat"}

HasEntry(ctx) == IsAuthenticated(ctx) /\ ctx[1].Username \in DOMAIN cfg.Users

Policy(ctx) == cfg.Users[ctx[1].Username]

ReadSide(flag) == flag.acc = O_RDONLY \/ flag.acc = O_RDWR

\* the physical path of the configured root, as resolve computes it for "/"
RootPath == Clean(DirOrDot(cfg.Dir))

AtRoot(p) == p = RootPath

\* the handler got past resolve for every path it was given
Resolved ==
    /\ last.phys # <<>>
    /\ last.op = "Rename" => last.phys2 # <<>>

\* the base C1 speaks of: root/subdir for an authenticated user whose policy
\* declares a subdirectory, root otherwise
Base(c, ctx) ==
    LET dir == DirOrDot(c.Dir)
    IN  IF /\ IsAuthenticated(ctx)
           /\ ctx[1].Username \in DOMAIN c.Users
           /\ c.Users[ctx[1].Username].Subdir # NilPtr
        THEN Clean(dir \o <<"/">> \o c.Users[ctx[1].Username].Subdir[1])
        ELSE Clean(dir)

\* C1: every physical path Dir.resolve returns lies lexically at or below the
\* base: root/subdir for an authenticated user whose policy declares a
\* subdirectory, root in every other case.
C1_ResolveContained ==
    (last.op = "resolve" /\ last.phys # <<>>)
        => IsUnder(last.phys, Base(cfg, last.ctx))

\* C1 witness: "../a" resolved for Alice, whose policy declares subdirectory
\* "u" under "/d", gives "/d/u/a"
C1_Witness ==
    /\ last.op = "resolve"
    /\ last.name = <<".", ".", "/", "a">>
    /\ last.ctx = AuthInfo(TRUE, Alice)
    /\ cfg.Dir = <<"/", "d">>
    /\ HasEntry(last.ctx) /\ Policy(last.ctx).Subdir = Ptr(Alice)
    /\ last.phys = <<"/", "d", "/", "u", "/", "a">>

\* C2: for an unauthenticated request each of the four permission functions
\* allows if and only if the user table is empty; with a non-empty table
\* every Dir operation of an unauthenticated request is refused before its
\* filesystem call.
C2_UnauthenticatedGate ==
    /\ \A ctx \in Contexts :
          ~IsAuthenticated(ctx) =>
              /\ hasRead(cfg, ctx) = Allow <=> DOMAIN cfg.Users = {}
              /\ hasWrite(cfg, ctx) = Allow <=> DOMAIN cfg.Users = {}
              /\ hasDelete(cfg, ctx) = Allow <=> DOMAIN cfg.Users = {}
              /\ hasList(cfg, ctx) = Allow <=> DOMAIN cfg.Users = {}
    /\ (last.op \in DirOps /\ ~IsAuthenticated(last.ctx)
                           /\ DOMAIN cfg.Users # {})
          => /\ last.err \in {"ErrNotExist", "ErrInvalid", "ErrPermission"}
             /\ (Resolved /\ ~(last.op = "RemoveAll" /\ AtRoot(last.phys)))
                   => last.err = "ErrPermission"
             /\ ~last.executed
             /\ ~last.logged

\* C2 witness: Mkdir of "/a" without auth info, refused under a non-empty table
C2_Witness ==
    /\ last.op = "Mkdir"
    /\ last.ctx = NilPtr
    /\ last.name = <<"/", "a">>
    /\ DOMAIN cfg.Users # {}
    /\ last.err = "ErrPermission"
    /\ ~last.executed

\* C3 (as claimed): for an authenticated request whose username has no entry
\* in the user table each permission function completes with the answer
\* "allowed".
C3_MissingEntryAllowed ==
    (last.op \in {"hasRead", "hasWrite", "hasDelete", "hasList"}
        /\ IsAuthenticated(last.ctx) /\ ~HasEntry(last.ctx))
        => last.err = Allow

TouchesRoot ==
    \/ last.op = "RemoveAll" /\ AtRoot(last.phys)
    \/ /\ last.op = "Rename"
       /\ Resolved
       /\ (AtRoot(last.phys) \/ AtRoot(last.phys2))

\* C4 (as claimed, for the requests whose permission check completes):
\* RemoveAll and Rename on a path that resolves exactly to the root fail with
\* ErrInvalid whatever the permissions are.
C4_RootAlwaysInvalid ==
    (TouchesRoot /\ hasWrite(cfg, last.ctx) # Panic)
        => last.err = "ErrInvalid" /\ ~last.executed

\* C4 (amended): RemoveAll on the root always fails with ErrInvalid; Rename
\* from or to the root never reaches os.Rename and fails with what the write
\* check decides first: ErrPermission when it denies, a panic when it
\* dereferences a missing entry, ErrInvalid only when it allows; the root
\* directory stays in place.
C4_RootProtected ==
    /\ (last.op = "RemoveAll" /\ TouchesRoot)
          => last.err = "ErrInvalid" /\ ~last.executed
    /\ (last.op = "Rename" /\ TouchesRoot)
          => /\ ~last.executed
             /\ hasWrite(cfg, last.ctx) = Allow => last.err = "ErrInvalid"
             /\ hasWrite(cfg, last.ctx) = Deny => last.err = "ErrPermission"
             /\ hasWrite(cfg, last.ctx) = Panic => last.err = "panic"
    /\ IsDirIn(fs, RootPath)

\* C4 witness: Alice, denied write, renames "/a" to the root and gets
\* ErrPermission
C4_Witness ==
    /\ last.op = "Rename"
    /\ last.name = <<"/", "a">>
    /\ last.name2 = <<"/">>
    /\ AtRoot(last.phys2)
    /\ HasEntry(last.ctx) /\ Policy(last.ctx).Write = "false"
    /\ last.err = "ErrPermission"

WriteFalseOnly(ctx) ==
    /\ HasEntry(ctx)
    /\ Policy(ctx).Write = "false"
    /\ Policy(ctx).Read = "nil"
    /\ Policy(ctx).Delete = "nil"
    /\ Policy(ctx).List = "nil"

\* C5: for an authenticated user whose policy sets write to false and leaves
\* read, delete and list unset, Mkdir, Rename and every OpenFile with a write
\* bit are refused with ErrPermission before the filesystem call, while a
\* read-only OpenFile, Stat and RemoveAll of a path other than the root reach
\* their filesystem call.
C5_WriteFalse ==
    (last.op \in DirOps /\ WriteFalseOnly(last.ctx) /\ Resolved)
        => /\ (\/ last.op \in {"Mkdir", "Rename"}
               \/ last.op = "OpenFile" /\ last.flag.acc # O_RDONLY)
                 => /\ last.err = "ErrPermission"
                    /\ ~last.executed
                    /\ ~last.logged
           /\ (\/ last.op = "Stat"
               \/ last.op = "OpenFile" /\ last.flag.acc = O_RDONLY
               \/ last.op = "RemoveAll" /\ ~AtRoot(last.phys))
                 => /\ last.executed
                    /\ last.err # "ErrPermission"

\* C5 witness: a read-write OpenFile of "/a" by that user, refused
C5_Witness ==
    /\ last.op = "OpenFile"
    /\ WriteFalseOnly(last.ctx)
    /\ last.name = <<"/", "a">>
    /\ last.flag.acc = O_RDWR
    /\ last.err = "ErrPermission"

\* C6: every Dir operation given a virtual path that contains a NUL byte
\* (Rename: in either argument) returns ErrNotExist without a filesystem call,
\* whatever the authentication state and the policy table are.
C6_NulNotFound ==
    (last.op \in DirOps
        /\ (Contains(last.name, NUL) \/ Contains(last.name2, NUL)))
        => /\ last.err = "ErrNotExist"
           /\ ~last.executed
           /\ ~last.logged

\* C6 witness: an unauthenticated Rename from the root to a name with a NUL
\* byte under a non-empty table: neither ErrInvalid nor ErrPermission
C6_Witness ==
    /\ last.op = "Rename"
    /\ ~IsAuthenticated(last.ctx)
    /\ DOMAIN cfg.Users # {}
    /\ last.name = <<"/">>
    /\ last.name2 = <<NUL>>
    /\ last.err = "ErrNotExist"

WriteSideOk == last.flag.acc = O_RDWR => Policy(last.ctx).Write # "false"

\* C7 (as claimed): in a read-only or read-write OpenFile the read-side
\* permission depends on the target alone: list for an existing directory,
\* read for anything else.
C7_ReadSideByTarget ==
    (last.op = "OpenFile" /\ ReadSide(last.flag) /\ Resolved
        /\ HasEntry(last.ctx) /\ WriteSideOk)
        => /\ (last.statDir /\ Policy(last.ctx).List # "false")
                 => last.err # "ErrPermission"
           /\ (~last.statDir /\ Policy(last.ctx).Read # "false")
                 => last.err # "ErrPermission"

\* C8 (as claimed): OpenFile emits its audit record exactly when the open
\* succeeded, read logging is enabled and the access mode is not write-only.
C8_AuditExactly ==
    last.op = "OpenFile"
        => (last.logged <=> /\ last.executed
                            /\ last.err = "nil"
                            /\ cfg.Log.Read
                            /\ last.flag.acc # O_WRONLY)

GateAllows ==
    \/ last.op \in {"UserDir.RemoveAll", "UserDir.Rename"}
    \/ last.op = "RemoveAll" /\ hasDelete(cfg, last.ctx) = Allow
    \/ last.op = "Rename" /\ hasWrite(cfg, last.ctx) = Allow

VirtualRoot(name) == Clean(<<"/">> \o name) = <<"/">>

\* C9 (as claimed, for the requests the permission gate lets through):
\* RemoveAll of the virtual path "/" and Rename from or to it fail with
\* ErrInvalid without a filesystem call, for every requesting user, on Dir and
\* on UserDir.
C9_VirtualRootProtected ==
    (/\ last.op \in {"RemoveAll", "Rename", "UserDir.RemoveAll",
                     "UserDir.Rename"}
     /\ Resolved
     /\ GateAllows
     /\ (\/ VirtualRoot(last.name)
         \/ (last.op \in {"Rename", "UserDir.Rename"}
                /\ VirtualRoot(last.name2))))
        => last.err = "ErrInvalid" /\ ~last.executed

ListFalse(ctx) ==
    /\ HasEntry(ctx)
    /\ Policy(ctx).List = "false"
    /\ Policy(ctx).Read # "false"

\* C10 (as claimed): under any interleaving a user whose list flag is false
\* never gets a successful read-intent OpenFile of a path that is a directory
\* when os.OpenFile runs.
C10_NeverOpensDirectory ==
    (last.op = "OpenFile" /\ ListFalse(last.ctx) /\ ReadSide(last.flag)
        /\ last.executed /\ last.err = "nil")
        => ~last.openDir

\* C10 (amended): under any interleaving a user whose list flag is false
\* never gets past the check, and so never gets a successful read-intent
\* OpenFile, for a path that was a directory when the handler's os.Stat
\* looked at it.
C10_StatDecides ==
    /\ \A req \in inflight :
          (ListFalse(req.ctx) /\ ReadSide(req.flag)) => ~req.statDir
    /\ (last.op = "OpenFile" /\ ListFalse(last.ctx) /\ ReadSide(last.flag)
           /\ Resolved /\ last.statDir)
          => last.err = "ErrPermission" /\ ~last.executed

\* C10 witness: such a user refused a read-only OpenFile of a directory while
\* another OpenFile sits between its two filesystem calls
C10_Witness ==
    /\ last.op = "OpenFile"
    /\ ListFalse(last.ctx)
    /\ last.flag.acc = O_RDONLY
    /\ last.statDir
    /\ last.err = "ErrPermission"
    /\ inflight # {}

====
